---- MODULE Spec2Model ----
(***************************************************************************)
(* deepfilter-multimedia: the CLI shell (cli.py) and the file router and   *)
(* pipelines (core.py), as one sequential state machine.                   *)
(*                                                                         *)
(* A path is a record [dir, name]: dir is the sequence of directory        *)
(* components and name the sequence of characters of the final component   *)
(* (a run of characters without a dot is kept as one token, "." is its own *)
(* token).  An optional value (Python's None or a value) is a sequence of  *)
(* length 0 or 1.                                                          *)
(***************************************************************************)
EXTENDS Naturals, Sequences, FiniteSets, TLC

\* ------------------------------------------------------------------ bounds
\* Largest number of positional inputs of one invocation.
MaxInputs == 3

\* ------------------------------------------------------- program constants
EXIT_OK == 0
EXIT_ERROR == 1
EXIT_INTERRUPT == 130

None == << >>
Some(x) == << x >>

\* -------------------------------------------------------------- path model
Dot == "."

\* core.py:211-212
video_extensions ==
    { <<Dot, "mp4">>, <<Dot, "mkv">>, <<Dot, "avi">>, <<Dot, "mov">>,
      <<Dot, "webm">>, <<Dot, "flv">>, <<Dot, "wmv">>, <<Dot, "m4v">> }
audio_extensions ==
    { <<Dot, "wav">>, <<Dot, "mp3">>, <<Dot, "flac">>, <<Dot, "ogg">>,
      <<Dot, "m4a">>, <<Dot, "aac">>, <<Dot, "wma">> }

\* str.lower() on one token
LowerTok(t) ==
    CASE t = "WAV" -> "wav"
      [] t = "MP4" -> "mp4"
      [] OTHER -> t

\* str.lower() on a character sequence
Lower(s) == [k \in 1..Len(s) |-> LowerTok(s[k])]

\* name.rfind('.'): the last index holding a dot, 0 when there is none
\* (indices are 1-based here, so Python's i is RFindDot(name) - 1).
RFindDot(name) ==
    LET hits == { k \in 1..Len(name) : name[k] = Dot }
    IN  IF hits = {} THEN 0
        ELSE CHOOSE k \in hits : \A h \in hits : h <= k

\* PurePath.suffix: name[i:] when 0 < i < len(name) - 1, else ''
Suffix(name) ==
    LET p == RFindDot(name)
    IN  IF 1 < p /\ p < Len(name) THEN SubSeq(name, p, Len(name)) ELSE << >>

\* PurePath.stem: name[:i] under the same condition, else the whole name
Stem(name) ==
    LET p == RFindDot(name)
    IN  IF 1 < p /\ p < Len(name) THEN SubSeq(name, 1, p - 1) ELSE name

\* Path(raw): "." components and empty components are dropped.
PathOf(raw) ==
    [dir |-> SelectSeq(raw.dir, LAMBDA c : c # Dot /\ c # ""), name |-> raw.name]

\* Faulty variant: the default output keeps the input's directory.
DefaultOutputKeepsDir(input_path) ==
    [dir  |-> <<"output">> \o input_path.dir,
     name |-> Stem(input_path.name) \o <<"_enhanced">> \o Suffix(input_path.name)]

\* Faulty variant: the default output takes the lower-cased suffix used for dispatch.
DefaultOutputLowerSuffix(input_path) ==
    [dir  |-> <<"output">>,
     name |-> Stem(input_path.name) \o <<"_enhanced">>
                 \o Lower(Suffix(input_path.name))]

\* core.py:203-205  output_dir / f"{stem}_enhanced{suffix}"
DefaultOutput(input_path) ==
    [dir  |-> <<"output">>,
     name |-> Stem(input_path.name) \o <<"_enhanced">> \o Suffix(input_path.name)]

\* core.py:207  Path(output_path)
ExplicitOutput(raw) == PathOf(raw)

\* Directories that mkdir(parents=True, exist_ok=True) leaves in existence.
Parents(dir) == { SubSeq(dir, 1, k) : k \in 1..Len(dir) }

\* Faulty variant: every extension counts as audio.
IsAudioAny(ext) == TRUE

\* core.py:218
IsAudio(ext) == ext \in audio_extensions

\* core.py:216
IsVideo(ext) == ext \in video_extensions

\* Faulty variant: the existence check is skipped.
PathExistsAlways(p, fs) == TRUE

\* Path.exists() against the set of existing files
PathExists(p, fs) == p \in fs

\* Faulty variant: a non-zero return code is ignored.
SubprocessNeverFails(rc) == FALSE

\* core.py:36 and core.py:74  result.returncode != 0
SubprocessFailed(rc) == rc # 0

\* Faulty variant: --output is never rejected.
OutputNeverRejected(n, out) == FALSE

\* cli.py:66  len(args.input) > 1 and args.output is not None
OutputRejected(n, out) == n > 1 /\ out # None

\* Faulty variant: only the first input is checked for existence.
LastValidatedIsFirst(n) == 1

\* cli.py:72  for input_file in args.input: the last index the loop visits
LastValidated(n) == n

\* Faulty variant: the temporary directory is removed on normal exit only.
CleanupOnReturnOnly(files, raised) == IF raised THEN files ELSE {}

\* core.py:137  TemporaryDirectory.__exit__: the directory and all it holds
\* are removed, whether the block returned or raised.
CleanupOnExit(files, raised) == {}

\* Python's exception hierarchy, as far as the handlers of main tell apart.
IsInstance(e, cls) ==
    \/ e = cls
    \/ cls = "Exception" /\ e \in {"FileNotFoundError", "ValueError",
                                   "RuntimeError", "OSError", "ModelError"}
    \/ cls = "OSError" /\ e = "FileNotFoundError"

\* Faulty variant: the interrupt handler returns the generic error code.
ExitCodeForInterruptAsError(e) == EXIT_ERROR

\* cli.py:113-128  the except clauses of main, in their order
ExitCodeFor(e) ==
    IF IsInstance(e, "FileNotFoundError") THEN EXIT_ERROR
    ELSE IF IsInstance(e, "ValueError") THEN EXIT_ERROR
    ELSE IF IsInstance(e, "KeyboardInterrupt") THEN EXIT_INTERRUPT
    ELSE EXIT_ERROR

\* Faulty variant: each file is processed in its own exception scope.
TryInsideLoop == FALSE

\* cli.py:93-111  the try block encloses the whole for loop, so an exception
\* raised while processing one file leaves the loop.
TryEnclosesLoop == TRUE

\* ------------------------------------------------------------ input space
FileNames ==
    { <<"sample", Dot, "wav">>,     \* audio
      <<"sample", Dot, "WAV">>,     \* audio, upper-case extension
      <<"clip", Dot, "mp4">>,       \* video
      <<"notes", Dot, "txt">>,      \* neither
      <<Dot, "wav">> }              \* hidden file: no suffix at all

\* Every name in directory d1; the audio and the video name also in d2, so
\* that two distinct inputs can carry the same file name.
RawInputs ==
    [dir : {<<"d1">>}, name : FileNames]
      \cup [dir : {<<"d2">>},
            name : {<<"sample", Dot, "wav">>, <<"clip", Dot, "mp4">>}]

OutName == <<"out", Dot, "wav">>

\* -o values: absent, a normal path, and the same path written "./res/out.wav"
ExplicitOutputs ==
    { [dir |-> <<"res">>, name |-> OutName],
      [dir |-> <<Dot, "res">>, name |-> OutName] }

OutputArgs == {None} \cup { Some(o) : o \in ExplicitOutputs }

Entries == {"main", "process_file", "process_video_file", "process_audio_file"}

TempDir == "temp_dir"

VideoPCs == {"v_extract", "v_load", "v_enhance", "v_save", "v_remux", "v_exit"}
AudioPCs == {"a_load", "a_enhance", "a_save"}
FilePCs == {"pf_exists", "pf_outpath", "pf_dispatch", "pf_return"}
             \cup {"v_enter"} \cup VideoPCs \cup AudioPCs

\* ------------------------------------------------------------------ state
VARIABLES
    entry,      \* which public function the caller entered
    argv,       \* args.input: the positional inputs, as typed
    argOutput,  \* args.output / output_path: None or a path as typed
    hasModel,   \* a model handle was passed to the pipeline by the caller
    fsIn,       \* the input files that exist
    fsOut,      \* output files on disk: path -> Some(source input) or None
                \* for a file a failed write left behind
    dirs,       \* directories created by mkdir
    tmp,        \* the temporary directory and the files in it
    pc,         \* position in the code
    vi,         \* index of validate_args' loop
    i,          \* index of main's loop (1 for a direct call)
    outArg,     \* process_file's output_path parameter
    curOut,     \* process_file's output_path local, once computed
    handed,     \* write targets handed to a pipeline, one per dispatch
    returned,   \* values returned by process_file, one per return
    exc,        \* the exception that ended the run, "none" otherwise
    exitCode,   \* main's return value, None until it returns
    fsTouched,  \* some filesystem call was made
    trace       \* external operations performed, in order

inputs == <<entry, argv, argOutput, hasModel, fsIn>>
vars == <<entry, argv, argOutput, hasModel, fsIn, fsOut, dirs, tmp, pc, vi, i,
          outArg, curOut, handed, returned, exc, exitCode, fsTouched, trace>>

\* One external operation of the call for input i; ok is its outcome.
Event(op, ok) == [op |-> op, k |-> i, ok |-> ok]

\* process_file's input_path after Path(input_path)  (core.py:196)
CurIn == PathOf(argv[i])

WriteFile(fs, path, content) ==
    [p \in DOMAIN fs \cup {path} |-> IF p = path THEN content ELSE fs[p]]

Init ==
    \E e \in Entries, n \in 1..MaxInputs :
      \E a \in [1..n -> RawInputs], o \in OutputArgs, m \in BOOLEAN :
        \E fs \in SUBSET { PathOf(a[k]) : k \in 1..n } :
          /\ e # "main" => n = 1
          /\ e \in {"process_video_file", "process_audio_file"} => o # None
          /\ e \in {"main", "process_file"} => m = FALSE
          /\ entry = e
          /\ argv = a
          /\ argOutput = o
          /\ hasModel = m
          /\ fsIn = fs
          /\ fsOut = [p \in {} |-> None]
          /\ dirs = {}
          /\ tmp = {}
          /\ pc = CASE e = "main" -> "m_validate"
                    [] e = "process_file" -> "pf_exists"
                    [] e = "process_video_file" -> "v_enter"
                    [] OTHER -> "a_load"
          /\ vi = 1
          /\ i = 1
          /\ outArg = IF e = "main" THEN None ELSE o
          /\ curOut = IF e \in {"process_video_file", "process_audio_file"}
                      THEN o ELSE None
          /\ handed = << >>
          /\ returned = << >>
          /\ exc = "none"
          /\ exitCode = None
          /\ fsTouched = FALSE
          /\ trace = IF e = "process_file"
                      THEN << [op |-> "process_file", k |-> 1, ok |-> TRUE] >>
                      ELSE << >>

\* An exception e leaves the block at pc; files is the temporary directory's
\* content at that moment.  Inside the with block of process_video_file the
\* directory is removed first (core.py:137); in main the for loop is left and
\* the handler's code returned (cli.py:113-128); a direct caller gets e.
Raise(e, files) ==
    /\ tmp' = IF pc \in VideoPCs THEN CleanupOnExit(files, TRUE) ELSE files
    /\ IF entry = "main" /\ pc \in FilePCs /\ ~TryEnclosesLoop
       THEN /\ pc' = "m_loop"
            /\ i' = i + 1
            /\ UNCHANGED <<exc, exitCode>>
       ELSE /\ pc' = "done"
            /\ exc' = e
            /\ exitCode' = IF entry = "main" THEN Some(ExitCodeFor(e)) ELSE None
            /\ UNCHANGED i

\* ------------------------------------------------------------- cli.py main
\* cli.py:66-70  validate_args: the --output check
ValidateOutput ==
    /\ pc = "m_validate"
    /\ IF OutputRejected(Len(argv), argOutput)
       THEN /\ Raise("ValueError", tmp)
            /\ UNCHANGED vi
       ELSE /\ pc' = "m_exists"
            /\ vi' = 1
            /\ UNCHANGED <<tmp, i, exc, exitCode>>
    /\ UNCHANGED <<inputs, fsOut, dirs, outArg, curOut, handed, returned,
                   fsTouched, trace>>

\* cli.py:72-74  validate_args: one iteration of the existence loop; after
\* the last one validate_args returns and main's loop starts (cli.py:98).
ValidateExists ==
    /\ pc = "m_exists"
    /\ fsTouched' = TRUE
    /\ IF ~PathExists(PathOf(argv[vi]), fsIn)
       THEN /\ Raise("FileNotFoundError", tmp)
            /\ UNCHANGED vi
       ELSE /\ IF vi >= LastValidated(Len(argv))
               THEN pc' = "m_loop" /\ vi' = vi
               ELSE pc' = "m_exists" /\ vi' = vi + 1
            /\ UNCHANGED <<tmp, i, exc, exitCode>>
    /\ UNCHANGED <<inputs, fsOut, dirs, outArg, curOut, handed, returned, trace>>

\* cli.py:98-111  the head of the for loop: the next input is passed to
\* process_file, or the loop is over and main returns 0.
MainLoop ==
    /\ pc = "m_loop"
    /\ IF i > Len(argv)
       THEN /\ pc' = "done"
            /\ exitCode' = Some(EXIT_OK)
            /\ UNCHANGED <<outArg, curOut, trace>>
       ELSE /\ pc' = "pf_exists"
            /\ outArg' = IF Len(argv) = 1 THEN argOutput ELSE None
            /\ curOut' = None
            /\ trace' = Append(trace, Event("process_file", TRUE))
            /\ UNCHANGED exitCode
    /\ UNCHANGED <<inputs, fsOut, dirs, tmp, vi, i, handed, returned, exc,
                   fsTouched>>

\* ---------------------------------------------------- core.py process_file
\* core.py:196-199
PfExists ==
    /\ pc = "pf_exists"
    /\ fsTouched' = TRUE
    /\ IF ~PathExists(CurIn, fsIn)
       THEN Raise("FileNotFoundError", tmp)
       ELSE /\ pc' = "pf_outpath"
            /\ UNCHANGED <<tmp, i, exc, exitCode>>
    /\ UNCHANGED <<inputs, fsOut, dirs, vi, outArg, curOut, handed, returned,
                   trace>>

\* core.py:202-208  the output path and its directory
PfOutPath ==
    /\ pc = "pf_outpath"
    /\ LET out == IF outArg = None THEN DefaultOutput(CurIn)
                  ELSE ExplicitOutput(outArg[1])
       IN  /\ curOut' = Some(out)
           /\ dirs' = dirs \cup (IF outArg = None THEN {<<"output">>}
                                 ELSE Parents(out.dir))
    /\ fsTouched' = TRUE
    /\ trace' = Append(trace, Event("mkdir", TRUE))
    /\ pc' = "pf_dispatch"
    /\ UNCHANGED <<inputs, fsOut, tmp, vi, i, outArg, handed, returned, exc,
                   exitCode>>

\* core.py:211-225  dispatch on the lower-cased suffix
PfDispatch ==
    /\ pc = "pf_dispatch"
    /\ LET file_ext == Lower(Suffix(CurIn.name))
       IN  IF IsVideo(file_ext)
           THEN /\ pc' = "v_enter"
                /\ handed' = Append(handed, curOut[1])
                /\ UNCHANGED <<tmp, i, exc, exitCode>>
           ELSE IF IsAudio(file_ext)
           THEN /\ pc' = "a_load"
                /\ handed' = Append(handed, curOut[1])
                /\ UNCHANGED <<tmp, i, exc, exitCode>>
           ELSE /\ Raise("ValueError", tmp)
                /\ UNCHANGED handed
    /\ UNCHANGED <<inputs, fsOut, dirs, vi, outArg, curOut, returned, fsTouched,
                   trace>>

\* core.py:227 and cli.py:103-106  process_file returns str(output_path)
PfReturn ==
    /\ pc = "pf_return"
    /\ returned' = Append(returned, curOut[1])
    /\ IF entry = "main"
       THEN pc' = "m_loop" /\ i' = i + 1
       ELSE pc' = "done" /\ i' = i
    /\ UNCHANGED <<inputs, fsOut, dirs, tmp, vi, outArg, curOut, handed, exc,
                   exitCode, fsTouched, trace>>

\* ---------------------------------------------- core.py process_video_file
\* core.py:137-139  the temporary directory is created
VideoEnter ==
    /\ pc = "v_enter"
    /\ tmp' = {TempDir}
    /\ fsTouched' = TRUE
    /\ pc' = "v_extract"
    /\ UNCHANGED <<inputs, fsOut, dirs, vi, i, outArg, curOut, handed, returned,
                   exc, exitCode, trace>>

\* core.py:148 and core.py:25-38  ffmpeg extracts the audio track; it can
\* succeed only on an existing input, and a failing run may leave a file.
VideoExtract ==
    /\ pc = "v_extract"
    /\ \E rc \in {0, 1}, wrote \in BOOLEAN :
         /\ trace' = Append(trace, Event("extract", rc = 0))
         /\ rc = 0 => wrote /\ CurIn \in fsIn
         /\ LET files == IF wrote THEN tmp \cup {"extracted_audio.wav"} ELSE tmp
            IN  IF SubprocessFailed(rc)
                THEN Raise("RuntimeError", files)
                ELSE /\ tmp' = files
                     /\ pc' = "v_load"
                     /\ UNCHANGED <<i, exc, exitCode>>
    /\ UNCHANGED <<inputs, fsOut, dirs, vi, outArg, curOut, handed, returned,
                   fsTouched>>

\* core.py:151-154  init_df, unless the caller passed a model
VideoLoad ==
    /\ pc = "v_load"
    /\ IF hasModel
       THEN /\ pc' = "v_enhance"
            /\ UNCHANGED <<tmp, i, exc, exitCode, trace>>
       ELSE /\ \E ok \in BOOLEAN :
                 /\ trace' = Append(trace, Event("init_df", ok))
                 /\ IF ok THEN /\ pc' = "v_enhance"
                               /\ UNCHANGED <<tmp, i, exc, exitCode>>
                          ELSE Raise("ModelError", tmp)
    /\ UNCHANGED <<inputs, fsOut, dirs, vi, outArg, curOut, handed, returned,
                   fsTouched>>

\* core.py:159-160  load_audio and enhance on the extracted audio
VideoEnhance ==
    /\ pc = "v_enhance"
    /\ \E ok \in BOOLEAN :
         /\ trace' = Append(trace, Event("enhance", ok))
         /\ ok => "extracted_audio.wav" \in tmp
         /\ IF ok THEN /\ pc' = "v_save"
                       /\ UNCHANGED <<tmp, i, exc, exitCode>>
                  ELSE Raise("ModelError", tmp)
    /\ UNCHANGED <<inputs, fsOut, dirs, vi, outArg, curOut, handed, returned,
                   fsTouched>>

\* core.py:165  save_audio into the temporary directory
VideoSave ==
    /\ pc = "v_save"
    /\ \E ok \in BOOLEAN, wrote \in BOOLEAN :
         /\ trace' = Append(trace, Event("save", ok))
         /\ ok => wrote
         /\ LET files == IF wrote THEN tmp \cup {"enhanced_audio.wav"} ELSE tmp
            IN  IF ok THEN /\ tmp' = files
                           /\ pc' = "v_remux"
                           /\ UNCHANGED <<i, exc, exitCode>>
                      ELSE Raise("ModelError", files)
    /\ UNCHANGED <<inputs, fsOut, dirs, vi, outArg, curOut, handed, returned,
                   fsTouched>>

\* core.py:170 and core.py:60-76  ffmpeg writes the output container; it can
\* succeed only with both of its inputs, and a failing run may leave a file.
VideoRemux ==
    /\ pc = "v_remux"
    /\ \E rc \in {0, 1}, wrote \in BOOLEAN :
         /\ trace' = Append(trace, Event("remux", rc = 0))
         /\ rc = 0 => wrote /\ CurIn \in fsIn /\ "enhanced_audio.wav" \in tmp
         /\ fsOut' = IF wrote
                     THEN WriteFile(fsOut, PathOf(curOut[1]),
                                    IF rc = 0 THEN Some(CurIn) ELSE None)
                     ELSE fsOut
         /\ IF SubprocessFailed(rc)
            THEN Raise("RuntimeError", tmp)
            ELSE /\ pc' = "v_exit"
                 /\ UNCHANGED <<tmp, i, exc, exitCode>>
    /\ UNCHANGED <<inputs, dirs, vi, outArg, curOut, handed, returned, fsTouched>>

\* core.py:137 and core.py:172-173  the with block is left normally
VideoExit ==
    /\ pc = "v_exit"
    /\ tmp' = CleanupOnExit(tmp, FALSE)
    /\ pc' = IF entry = "process_video_file" THEN "done" ELSE "pf_return"
    /\ UNCHANGED <<inputs, fsOut, dirs, vi, i, outArg, curOut, handed, returned,
                   exc, exitCode, fsTouched, trace>>

\* ---------------------------------------------- core.py process_audio_file
\* core.py:100-103
AudioLoad ==
    /\ pc = "a_load"
    /\ IF hasModel
       THEN /\ pc' = "a_enhance"
            /\ UNCHANGED <<tmp, i, exc, exitCode, trace>>
       ELSE /\ \E ok \in BOOLEAN :
                 /\ trace' = Append(trace, Event("init_df", ok))
                 /\ IF ok THEN /\ pc' = "a_enhance"
                               /\ UNCHANGED <<tmp, i, exc, exitCode>>
                          ELSE Raise("ModelError", tmp)
    /\ UNCHANGED <<inputs, fsOut, dirs, vi, outArg, curOut, handed, returned,
                   fsTouched>>

\* core.py:108-109
AudioEnhance ==
    /\ pc = "a_enhance"
    /\ \E ok \in BOOLEAN :
         /\ trace' = Append(trace, Event("enhance", ok))
         /\ ok => CurIn \in fsIn
         /\ IF ok THEN /\ pc' = "a_save"
                       /\ UNCHANGED <<tmp, i, exc, exitCode>>
                  ELSE Raise("ModelError", tmp)
    /\ UNCHANGED <<inputs, fsOut, dirs, vi, outArg, curOut, handed, returned,
                   fsTouched>>

\* core.py:114  save_audio writes the output file
AudioSave ==
    /\ pc = "a_save"
    /\ \E ok \in BOOLEAN, wrote \in BOOLEAN :
         /\ trace' = Append(trace, Event("save", ok))
         /\ ok => wrote
         /\ fsOut' = IF wrote
                     THEN WriteFile(fsOut, PathOf(curOut[1]),
                                    IF ok THEN Some(CurIn) ELSE None)
                     ELSE fsOut
         /\ IF ok THEN /\ pc' = IF entry = "process_audio_file" THEN "done"
                                ELSE "pf_return"
                       /\ UNCHANGED <<tmp, i, exc, exitCode>>
                  ELSE Raise("ModelError", tmp)
    /\ UNCHANGED <<inputs, dirs, vi, outArg, curOut, handed, returned, fsTouched>>

\* ------------------------------------------------------------ environment
\* cli.py:120-122  the user interrupts: KeyboardInterrupt is raised at the
\* current position instead of the next step.
Interrupt ==
    /\ pc # "done"
    /\ Raise("KeyboardInterrupt", tmp)
    /\ UNCHANGED <<inputs, fsOut, dirs, vi, outArg, curOut, handed, returned,
                   fsTouched, trace>>

\* core.py:204 and core.py:208  mkdir raises (the directory cannot be made)
MkdirFails ==
    /\ pc = "pf_outpath"
    /\ fsTouched' = TRUE
    /\ trace' = Append(trace, Event("mkdir", FALSE))
    /\ Raise("OSError", tmp)
    /\ UNCHANGED <<inputs, fsOut, dirs, vi, outArg, curOut, handed, returned>>

\* ---------------------------------------------------------- specifications
\* The program with its external tools: ffmpeg's return code and the model
\* library's errors are free; the user sends no interrupt and the output
\* directory can be made.
Next ==
    \/ ValidateOutput
    \/ ValidateExists
    \/ MainLoop
    \/ PfExists
    \/ PfOutPath
    \/ PfDispatch
    \/ PfReturn
    \/ VideoEnter
    \/ VideoExtract
    \/ VideoLoad
    \/ VideoEnhance
    \/ VideoSave
    \/ VideoRemux
    \/ VideoExit
    \/ AudioLoad
    \/ AudioEnhance
    \/ AudioSave

Spec == Init /\ [][Next]_vars

\* The same program in an environment that may also interrupt it at any
\* step and refuse to create the output directory.
NextEnv ==
    \/ Next
    \/ Interrupt
    \/ MkdirFails

SpecEnv == Init /\ [][NextEnv]_vars

\* ------------------------------------------------------------------ claims
Done == pc = "done"
NInputs == Len(argv)
InputPath(k) == PathOf(argv[k])
Events == { trace[j] : j \in 1..Len(trace) }
ToolOps == {"extract", "init_df", "enhance", "save", "remux"}
PipelinePCs == {"v_enter"} \cup VideoPCs \cup AudioPCs

\* process_file has been called for input k.
Called(k) == \E ev \in Events : ev.op = "process_file" /\ ev.k = k

\* Some external tool or model step ran in the call for input k.
ToolRan(k) == \E ev \in Events : ev.op \in ToolOps /\ ev.k = k

\* The extension of a name, read off the name itself: what follows the last
\* dot, provided the dot is neither the first nor the last character.
HasExtension(name, ext) ==
    /\ Len(ext) >= 2
    /\ Len(name) > Len(ext)
    /\ SubSeq(name, Len(name) - Len(ext) + 1, Len(name)) = ext
    /\ ext[1] = Dot
    /\ \A j \in 2..Len(ext) : ext[j] # Dot

Recognized(name) ==
    \E ext \in audio_extensions \cup video_extensions :
        HasExtension(Lower(name), ext)

\* C1: whenever process_file is called on a path that does not exist, the
\* call runs no ffmpeg subprocess, loads no model, enhances nothing and does
\* not even create the output directory; it never gets past its existence
\* check, and it ends by raising FileNotFoundError without returning a path.
C1_NotFoundBeforeAnyTool ==
    \A k \in 1..NInputs :
        (Called(k) /\ InputPath(k) \notin fsIn) =>
            /\ ~ToolRan(k)
            /\ \A ev \in Events : ev.k = k => ev.op = "process_file"
            /\ pc \in {"pf_exists", "done"}
            /\ Done => exc = "FileNotFoundError" /\ Len(returned) < k
            /\ fsOut = [p \in {} |-> None]

\* C1 witness: a direct call on a missing path has ended with NotFound.
C1_Witness ==
    /\ entry = "process_file"
    /\ InputPath(1) \notin fsIn
    /\ Done
    /\ exc = "FileNotFoundError"
    /\ trace = << [op |-> "process_file", k |-> 1, ok |-> TRUE] >>

\* C2: whenever process_file is called on an existing input whose extension
\* is in neither recognized set, no pipeline is entered and no tool runs for
\* it, no file exists at the output path computed for it, and the call ends
\* by raising ValueError without returning a path.
C2_UnsupportedTypeNoOutput ==
    \A k \in 1..NInputs :
        (Called(k) /\ InputPath(k) \in fsIn /\ ~Recognized(argv[k].name)) =>
            /\ ~ToolRan(k)
            /\ i = k => pc \notin PipelinePCs \cup {"pf_return"}
            /\ Len(handed) < k
            /\ Len(returned) < k
            /\ (i = k /\ curOut # None) => PathOf(curOut[1]) \notin DOMAIN fsOut
            /\ Done => exc = "ValueError"

\* C2 witness: the second input of a batch was rejected as unsupported
\* after its output directory had been made and the first input written.
C2_Witness ==
    /\ entry = "main"
    /\ Done
    /\ exc = "ValueError"
    /\ i = 2
    /\ argv[2].name = <<Dot, "wav">>
    /\ <<"output">> \in dirs
    /\ Len(returned) = 1
    /\ DOMAIN fsOut = {returned[1]}

\* C3: outside the with block of process_video_file, that is before it is
\* entered and after it returned or raised at any step, neither the
\* temporary directory nor a file in it exists.
C3_TempFilesRemoved ==
    pc \notin VideoPCs => tmp = {}

\* C3 witness: the video pipeline raised at its last step, the remux, after
\* both temporary files had been written.
C3_Witness ==
    /\ Done
    /\ exc = "RuntimeError"
    /\ \E ev \in Events : ev.op = "save" /\ ev.ok
    /\ \E ev \in Events : ev.op = "remux" /\ ~ev.ok
    /\ tmp = {}

\* The invocation is one validate_args rejects.
InvalidArgs ==
    \/ NInputs > 1 /\ argOutput # None
    \/ \E k \in 1..NInputs : InputPath(k) \notin fsIn

\* C4: when --output comes with more than one input, or some input does not
\* exist, main never leaves validation for the batch loop: process_file is
\* called for no input, and main returns 1.
C4_ValidationBeforeBatch ==
    (entry = "main" /\ InvalidArgs) =>
        /\ pc \in {"m_validate", "m_exists", "done"}
        /\ \A k \in 1..NInputs : ~Called(k)
        /\ trace = << >>
        /\ Done => exitCode = Some(EXIT_ERROR)

\* C4 witness: three inputs, the first two exist and the third is missing;
\* main has returned 1 without calling process_file.
C4_Witness ==
    /\ entry = "main"
    /\ NInputs = 3
    /\ argOutput = None
    /\ InputPath(1) \in fsIn
    /\ InputPath(2) \in fsIn
    /\ InputPath(3) \notin fsIn
    /\ Done
    /\ exitCode = Some(EXIT_ERROR)
    /\ trace = << >>

\* C5 as stated: given two inputs and no --output, the CLI rejects the
\* invocation with InvalidArgument before touching the filesystem.
C5_AsStated ==
    (entry = "main" /\ NInputs = 2 /\ argOutput = None) =>
        /\ ~fsTouched
        /\ Done => exc = "ValueError" /\ exitCode = Some(EXIT_ERROR)

\* C5 amended: given two or more inputs and an explicit --output, the CLI
\* rejects the invocation with InvalidArgument (ValueError, exit code 1)
\* before touching the filesystem.
C5_OutputWithManyRejected ==
    (entry = "main" /\ NInputs >= 2 /\ argOutput # None) =>
        /\ ~fsTouched
        /\ pc \in {"m_validate", "done"}
        /\ trace = << >>
        /\ dirs = {}
        /\ Done => exc = "ValueError" /\ exitCode = Some(EXIT_ERROR)

\* C5 witness: two existing inputs with --output, rejected untouched.
C5_Witness ==
    /\ entry = "main"
    /\ NInputs = 2
    /\ argOutput # None
    /\ \A k \in 1..2 : InputPath(k) \in fsIn
    /\ Done
    /\ exc = "ValueError"
    /\ exitCode = Some(EXIT_ERROR)
    /\ ~fsTouched

\* C6: main returns exactly when the run is over; it returns 0 if and only
\* if the arguments were valid and every input was processed and returned
\* without an exception, 130 if and only if the run was ended by a
\* KeyboardInterrupt (in validation or in processing), and 1 for every other
\* exception; no other code is returned.
C6_ExitCodes ==
    entry = "main" =>
        /\ exitCode # None <=> Done
        /\ Done =>
            /\ exitCode \in {Some(EXIT_OK), Some(EXIT_ERROR), Some(EXIT_INTERRUPT)}
            /\ exitCode = Some(EXIT_OK) <=>
                 /\ exc = "none"
                 /\ ~InvalidArgs
                 /\ Len(returned) = NInputs
                 /\ \A ev \in Events : ev.ok
            /\ exitCode = Some(EXIT_INTERRUPT) <=> exc = "KeyboardInterrupt"
            /\ exc \in {"FileNotFoundError", "ValueError", "RuntimeError",
                        "ModelError", "OSError"} => exitCode = Some(EXIT_ERROR)

\* C6 witness: the user interrupted the second file of a batch after the
\* first one had been written; main returned 130.
C6_Witness ==
    /\ entry = "main"
    /\ Done
    /\ exitCode = Some(EXIT_INTERRUPT)
    /\ Len(returned) = 1
    /\ Called(2)
    /\ ToolRan(2)

\* The output_path argument process_file receives for input k.
OutArgFor(k) == IF NInputs = 1 THEN argOutput ELSE None

\* The default output name for an input name, read off the name itself:
\* "_enhanced" goes between the part before the extension and the extension,
\* or at the end when the name has no extension.
IsEnhancedName(out, name) ==
    \/ \E j \in 2..Len(name) :
          /\ HasExtension(name, SubSeq(name, j, Len(name)))
          /\ out = SubSeq(name, 1, j - 1) \o <<"_enhanced">>
                     \o SubSeq(name, j, Len(name))
    \/ /\ \A j \in 2..Len(name) : ~HasExtension(name, SubSeq(name, j, Len(name)))
       /\ out = name \o <<"_enhanced">>

\* C7 as stated: every path process_file returns is the explicit output path
\* exactly as given when one is given, else output/<stem>_enhanced<ext>, and
\* it is the write target handed to the pipeline.
C7_AsStated ==
    \A k \in 1..Len(returned) :
        /\ handed[k] = returned[k]
        /\ IF OutArgFor(k) # None
           THEN returned[k] = OutArgFor(k)[1]
           ELSE /\ returned[k].dir = <<"output">>
                /\ IsEnhancedName(returned[k].name, argv[k].name)

\* C7 amended: every path process_file returns is the explicit output path
\* in the normal form Path() gives it ("." components dropped; the given path
\* itself when it has none) when one is given, else
\* output/<stem>_enhanced<ext> with the input's stem and original suffix; the
\* pipeline was handed exactly the returned path and wrote its result there.
C7_OutputPath ==
    /\ Len(returned) <= Len(handed)
    /\ \A k \in 1..Len(returned) :
        /\ handed[k] = returned[k]
        /\ returned[k] \in DOMAIN fsOut
        /\ IF OutArgFor(k) # None
           THEN /\ returned[k].name = OutArgFor(k)[1].name
                /\ returned[k].dir =
                     SelectSeq(OutArgFor(k)[1].dir, LAMBDA c : c # Dot)
                /\ (\A j \in 1..Len(OutArgFor(k)[1].dir) :
                        OutArgFor(k)[1].dir[j] # Dot)
                     => returned[k] = OutArgFor(k)[1]
           ELSE /\ returned[k].dir = <<"output">>
                /\ IsEnhancedName(returned[k].name, argv[k].name)

\* C7 witness: a single input was processed with --output ./res/out.wav;
\* process_file returned res/out.wav and the result was written there.
C7_Witness ==
    /\ entry = "main"
    /\ Done
    /\ exitCode = Some(EXIT_OK)
    /\ argOutput = Some([dir |-> <<Dot, "res">>, name |-> OutName])
    /\ returned = << [dir |-> <<"res">>, name |-> OutName] >>
    /\ handed = returned
    /\ fsOut[returned[1]] = Some(InputPath(1))

\* C8: inputs are processed one at a time in argument order: the events of
\* the trace never go back to an earlier input, input k+1 is started only
\* after input k was returned, and while input k is in progress or once it
\* has failed no later input has been touched; a run that ended without
\* returning every input returned a non-zero code; and every output that was
\* returned is still on disk, holding the result of its input unless a later
\* input was handed the same path.
C8_SequentialAbortOnFirstError ==
    entry = "main" =>
        /\ \A a, b \in 1..Len(trace) : a < b => trace[a].k <= trace[b].k
        /\ \A k \in 1..NInputs :
              /\ Cardinality({ j \in 1..Len(trace) :
                    trace[j].op = "process_file" /\ trace[j].k = k }) <= 1
              /\ Called(k) => Len(returned) >= k - 1
              /\ (Called(k) /\ Len(returned) < k) =>
                    \A ev \in Events : ev.k <= k
        /\ (Done /\ Len(returned) < NInputs) =>
              /\ exitCode \in {Some(EXIT_ERROR), Some(EXIT_INTERRUPT)}
              /\ exc # "none"
              /\ \A k \in (Len(returned) + 2)..NInputs : ~Called(k)
        /\ \A j \in 1..Len(returned) :
              /\ returned[j] \in DOMAIN fsOut
              /\ (\A m \in (j + 1)..Len(handed) : handed[m] # returned[j])
                    => fsOut[returned[j]] = Some(InputPath(j))

\* C8 witness: of three inputs the second failed in its pipeline; the third
\* was never started, main returned 1 and the first output is in place.
C8_Witness ==
    /\ entry = "main"
    /\ NInputs = 3
    /\ Done
    /\ exitCode = Some(EXIT_ERROR)
    /\ Len(returned) = 1
    /\ Called(2)
    /\ ToolRan(2)
    /\ ~Called(3)
    /\ fsOut[returned[1]] = Some(InputPath(1))

\* The call for input k runs the video pipeline.
VideoCall(k) ==
    \/ entry = "process_video_file"
    \/ /\ entry \in {"main", "process_file"}
       /\ \E ext \in video_extensions : HasExtension(Lower(argv[k].name), ext)

\* The step that must have completed right before a video pipeline step.
StepBefore(op) ==
    CASE op = "init_df" -> "extract"
      [] op = "enhance" -> IF hasModel THEN "extract" ELSE "init_df"
      [] op = "save"    -> "enhance"
      [] op = "remux"   -> "save"
      [] OTHER          -> "none"

\* C9: in a video call every pipeline step comes directly after the
\* successful step before it in the order extract, init_df (only when no
\* model was passed), enhance, save, remux, and extract comes first; a step
\* that fails is the last thing the run does.  In particular a failed
\* extraction ends the run with RuntimeError (exit code 1 from main), with no
\* model load, no enhancement and no remux after it, and a remux is only run
\* right after the enhanced audio was saved.
C9_VideoStepOrder ==
    LET videoCalls == { k \in 1..NInputs : VideoCall(k) } IN
    \A j \in 1..Len(trace) :
        LET ev == trace[j] IN
        (ev.k \in videoCalls /\ ev.op \in ToolOps) =>
            /\ IF ev.op = "extract"
               THEN \A h \in 1..(j - 1) :
                        trace[h].k = ev.k => trace[h].op \notin ToolOps
               ELSE /\ j > 1
                    /\ trace[j - 1] =
                         [op |-> StepBefore(ev.op), k |-> ev.k, ok |-> TRUE]
            /\ ~ev.ok =>
                  /\ j = Len(trace)
                  /\ Done
                  /\ tmp = {}
            /\ (ev.op = "extract" /\ ~ev.ok) =>
                  /\ exc = "RuntimeError"
                  /\ entry = "main" => exitCode = Some(EXIT_ERROR)

\* C9 witness: in a batch the extraction of the second input, a video,
\* failed; nothing ran after it and main returned 1.
C9_Witness ==
    /\ entry = "main"
    /\ Done
    /\ Len(trace) > 0
    /\ trace[Len(trace)] = [op |-> "extract", k |-> 2, ok |-> FALSE]
    /\ exc = "RuntimeError"
    /\ exitCode = Some(EXIT_ERROR)
    /\ Len(returned) = 1

\* C10: the default output path depends on the input's file name only: in a
\* batch, inputs of the same name are returned the same output path whatever
\* their directories, and when two distinct inputs of a batch that ended with
\* exit code 0 share their name, that path holds the result of the last of
\* them and there are fewer output files than inputs.
C10_SameNameSameOutput ==
    (entry = "main" /\ NInputs > 1) =>
        /\ \A j, k \in 1..Len(returned) :
              argv[j].name = argv[k].name => returned[j] = returned[k]
        /\ (Done /\ exitCode = Some(EXIT_OK)) =>
              \A j, k \in 1..NInputs :
                  (j < k /\ argv[j].name = argv[k].name
                         /\ InputPath(j) # InputPath(k)) =>
                      /\ \E m \in k..NInputs :
                            /\ argv[m].name = argv[k].name
                            /\ \A h \in (m + 1)..NInputs : argv[h].name # argv[k].name
                            /\ fsOut[returned[j]] = Some(InputPath(m))
                      /\ Cardinality(DOMAIN fsOut) < NInputs

\* C10 witness: d1/sample.wav and d2/sample.wav were both processed with
\* exit code 0 and the one output file holds the result of d2/sample.wav.
C10_Witness ==
    /\ entry = "main"
    /\ Done
    /\ exitCode = Some(EXIT_OK)
    /\ argv = << [dir |-> <<"d1">>, name |-> <<"sample", Dot, "wav">>],
                 [dir |-> <<"d2">>, name |-> <<"sample", Dot, "wav">>] >>
    /\ fsOut = [p \in {[dir |-> <<"output">>,
                        name |-> <<"sample", "_enhanced", Dot, "wav">>]}
                  |-> Some([dir |-> <<"d2">>, name |-> <<"sample", Dot, "wav">>])]

====
